---- MODULE Spec2Model ----
(***************************************************************************)
(* Scheduling core of OpenQL: object-access analysis, dependency graph     *)
(* construction and the resource-constrained list scheduler (ASAP, ALAP,   *)
(* UNIFORM), modelled as one scheduling run over a bounded instruction     *)
(* list.                                                                   *)
(***************************************************************************)
EXTENDS Integers, Sequences, FiniteSets, TLC

VARIABLES
    platform,     \* name of the platform configuration file in use
    strategy,     \* the "scheduler" option: ASAP, ALAP or UNIFORM
    dur2q,        \* duration in cycles of a two-qubit gate on this platform
    prog,         \* the kernel's instruction list, in program order
    runState,     \* UNSCHEDULED, IN_PROGRESS, SCHEDULED or FAILED
    pos,          \* number of instructions the graph builder has processed
    edges,        \* dependency edges <<u, v>> between instruction indices
    lastWrite,    \* per object: index of the last writing instruction, 0 if none
    lastReads,    \* per object: instructions that read it since the last write
    cycle,        \* per instruction: assigned start cycle, NoCycle if none yet
    rstate,       \* per resource unit: its single-dimensional reservation
    horizon,      \* total length used as reference by ALAP and UNIFORM
    phase,        \* "graph" while the graph is built, "cycles" while placing
    error,        \* classified error of a FAILED run, "none" otherwise
    accesses,     \* ObjectAccesses::accesses: object reference -> access mode
    disable_single_qubit_commutation,   \* toggle of the analyzer
    disable_multi_qubit_commutation,    \* toggle of the analyzer
    lastMode,     \* per object: the access mode shared by its last reads
    lastPrior,    \* per object: the accesses the last reads did not commute with
    fresh,        \* accesses of an analyzer constructed at the last reset()
    reused,       \* TRUE once reset() has cleared a non-empty analyzer
    lastCall,     \* the last call made on the analyzer
    gates,        \* the gate vector handed to the visualizer
    cycleDuration,  \* duration of one cycle in nanoseconds
    cycles,       \* CircuitData::cycles, the generated cycle vector
    vizState,     \* how far the CircuitData constructor got, FATAL after QL_FATAL
    layout,       \* the options of the Layout the constructor looks at
    lines,        \* per qubit: the segments of its pulse line
    data_types,   \* platform->data_types: the names of the registered types
    raised        \* the exception of the last add_type call, "none" if none

schedVars == <<platform, strategy, dur2q, prog, runState, pos, edges,
               lastWrite, lastReads, lastMode, lastPrior, cycle, rstate,
               horizon, phase, error>>

toggles == <<disable_single_qubit_commutation, disable_multi_qubit_commutation>>

analyzerVars == <<accesses, toggles, fresh, reused, lastCall>>

visualizerVars == <<gates, cycleDuration, cycles, vizState, layout, lines>>

typeVars == <<data_types, raised>>

vars == <<schedVars, analyzerVars, visualizerVars, typeVars>>

-----------------------------------------------------------------------------
(* Bounds of the model. *)

\* longest generated instruction list
MaxLen == 3

\* marks an instruction that has no cycle yet
NoCycle == 0 - 1

Max(a, b) == IF a >= b THEN a ELSE b

Min(a, b) == IF a <= b THEN a ELSE b

SetMax(S) == CHOOSE m \in S : \A x \in S : x <= m

SetMin(S) == CHOOSE m \in S : \A x \in S : m <= x

-----------------------------------------------------------------------------
(* Object references. *)

Qubit(i) == <<"qubit", i>>

\* the implicit measurement bit associated with qubit i
make_bit_ref(i) == <<"bit", i>>

Creg(i) == <<"creg", i>>

\* the null reference: full barriers and gotos write it, all others read it
NullRef == <<"null", 0>>

-----------------------------------------------------------------------------
(* Object access analyzer. *)

\* mutant: the mode of the later access replaces the recorded one
RecordOverwrites(acc, mode, ref) ==
    [r \in DOMAIN acc \cup {ref} |-> IF r = ref THEN mode ELSE acc[r]]

\* one recorded access: absent object is inserted, matching mode is kept,
\* differing modes combine to write
Record(acc, mode, ref) ==
    IF ref \in DOMAIN acc
    THEN [acc EXCEPT ![ref] = IF @ = mode THEN @ ELSE "write"]
    ELSE [r \in DOMAIN acc \cup {ref} |->
            IF r = ref THEN mode ELSE acc[r]]

\* mutant: a literal access is recorded as it is
AddAccessLiteralKept(acc, mode, ref) ==
    IF mode = "measure"
    THEN Record(Record(acc, "write", make_bit_ref(ref[2])), "write", ref)
    ELSE Record(acc, mode, ref)

\* mutant: a measure access writes the qubit only
AddAccessMeasureQubitOnly(acc, mode, ref) ==
    IF mode = "literal" THEN Record(acc, "read", ref)
    ELSE IF mode = "measure" THEN Record(acc, "write", ref)
    ELSE Record(acc, mode, ref)

\* literal is upgraded to read, measure to a write of the qubit and of its
\* implicit bit; an access of an object already accessed is combined
add_access(acc, mode, ref) ==
    IF mode = "literal" THEN Record(acc, "read", ref)
    ELSE IF mode = "measure"
    THEN Record(Record(acc, "write", make_bit_ref(ref[2])), "write", ref)
    ELSE Record(acc, mode, ref)

EmptyAccesses == [r \in {} |-> "read"]

\* the modes under which accesses of the same kind commute with each other
CommuteModes == {"commute_x", "commute_y", "commute_z"}

AccessModes == {"read", "write", "literal", "measure"} \cup CommuteModes

\* number of qubit operands of an operand list
NumQubits(operands) ==
    Cardinality({k \in DOMAIN operands : operands[k].ref[1] = "qubit"})

\* mutant: one toggle disables commutation for every instruction
DisabledForAny(nq, ds, dm) == ds \/ dm

\* X/Y/Z commutation is disabled for an instruction with nq qubit operands
DisabledFor(nq, ds, dm) == (nq = 1 /\ ds) \/ (nq > 1 /\ dm)

\* a commuting operand of an instruction with disabled commutation is a write
OperandMode(mode, nq, ds, dm) ==
    IF mode \in CommuteModes /\ DisabledFor(nq, ds, dm) THEN "write" ELSE mode

RECURSIVE AddEach(_, _, _, _, _)
AddEach(acc, operands, nq, ds, dm) ==
    IF operands = <<>> THEN acc
    ELSE AddEach(add_access(acc, OperandMode(operands[1].mode, nq, ds, dm),
                            operands[1].ref),
                 Tail(operands), nq, ds, dm)

\* the operands of one instruction, under the toggles ds and dm
add_operands(acc, operands, ds, dm) ==
    AddEach(acc, operands, NumQubits(operands), ds, dm)

\* a call on the analyzer: the method, and its access mode and reference or
\* the name of its instruction
Call(op, mode, ref, name) ==
    [op |-> op, mode |-> mode, ref |-> ref, name |-> name]

\* mutant: reset() keeps the access to the null reference
ResetKeepsNull(acc) ==
    [r \in DOMAIN acc \cap {<<"null", 0>>} |-> acc[r]]

\* reset() clears the dependency list
reset(acc) == EmptyAccesses

-----------------------------------------------------------------------------
(* Instructions. *)

Operand(mode, ref) == [mode |-> mode, ref |-> ref]

\* k.gate(name, q): a single-qubit gate
Gate1(name, q) ==
    [name |-> name, operands |-> <<Operand("write", Qubit(q))>>]

\* k.gate(name, a, b): a two-qubit gate
Gate2(name, a, b) ==
    [name |-> name,
     operands |-> <<Operand("write", Qubit(a)), Operand("write", Qubit(b))>>]

\* a single-qubit rotation about one axis: its operand commutes on that axis
Rot(name, axis, q) ==
    [name |-> name, operands |-> <<Operand(axis, Qubit(q))>>]

\* a cnot: the control commutes about Z, the target about X
Cnot(c, t) ==
    [name |-> "cnot",
     operands |-> <<Operand("commute_z", Qubit(c)),
                    Operand("commute_x", Qubit(t))>>]

\* a barrier without operands: a full barrier
FullBarrier == [name |-> "barrier", operands |-> <<>>]

\* a one-cycle custom instruction that writes classical register a
WriteA == [name |-> "wr", operands |-> <<Operand("write", Creg(0))>>]

\* a one-cycle custom instruction that reads classical register a
ReadA == [name |-> "rd", operands |-> <<Operand("read", Creg(0))>>]

\* a one-cycle custom instruction that reads classical register b
ReadB == [name |-> "rd", operands |-> <<Operand("read", Creg(1))>>]

IsFullBarrier(ins) == ins.name = "barrier" /\ ins.operands = <<>>

\* mutant: a barrier only reads the null reference, like any instruction
NullAccessModeAllRead(ins) == "read"

\* mutant: every instruction writes the null reference
NullAccessModeAllWrite(ins) == "write"

\* reads of the null reference by ordinary instructions, writes by barriers
NullAccessMode(ins) == IF IsFullBarrier(ins) THEN "write" ELSE "read"

\* the accesses of one statement, added to those gathered so far
add_statement(acc, ins, ds, dm) ==
    add_access(add_operands(acc, ins.operands, ds, dm),
               NullAccessMode(ins), NullRef)

QubitsOf(ins) ==
    {ins.operands[k].ref[2] : k \in {j \in DOMAIN ins.operands :
                                        ins.operands[j].ref[1] = "qubit"}}

\* duration in cycles: barriers take none, two-qubit gates take dur
DurationOf(ins, dur) ==
    IF ins.name = "barrier" THEN 0
    ELSE IF Len(ins.operands) = 2 THEN dur
    ELSE 1

-----------------------------------------------------------------------------
(* Instruction lists. *)

test_qwg == <<Gate1("x", 0), Gate1("y", 1)>>

test_singledim == <<Gate1("x", 2), Gate1("y", 3), Gate1("x", 4)>>

test_edge == <<Gate2("cz", 1, 4), Gate2("cz", 0, 3)>>

test_detuned ==
    <<Gate2("cz", 0, 2), Gate2("cz", 1, 4), Gate1("x", 3),
      Gate1("y", 3), Gate2("cz", 0, 2), Gate2("cz", 1, 4)>>

\* five gates on five different qubits followed by a full barrier
FiveThenBarrier ==
    <<Gate1("x", 0), Gate1("x", 1), Gate1("x", 2), Gate1("x", 3),
      Gate1("x", 4), FullBarrier>>

\* a kernel of x and two-qubit gates, built as the kernels of test_uniform.cc,
\* whose late-window gates UNIFORM gathers in the last cycle
UnevenCircuit ==
    <<Gate2("cz", 3, 4), Gate1("x", 2), Gate1("x", 1), Gate1("x", 4),
      Gate2("cz", 1, 2), Gate2("cz", 0, 2), Gate1("x", 3), Gate1("x", 1)>>

QuantumAlphabet ==
    {Gate1("x", 2), Gate1("y", 3), Gate1("x", 4), Gate2("cz", 0, 2),
     Gate2("cz", 0, 3), FullBarrier}

ClassicalAlphabet == {WriteA, ReadA, ReadB, FullBarrier}

CommutingAlphabet ==
    {Rot("rz", "commute_z", 2), Rot("rx", "commute_x", 2), Cnot(0, 2),
     Cnot(0, 3)}

\* two rotations about Z on one qubit, then two cnots sharing only their control
CommutingPairs ==
    <<Rot("rz", "commute_z", 1), Rot("rz", "commute_z", 1), Cnot(0, 2),
      Cnot(0, 3)>>

HasCommutingOperand(p) ==
    \E i \in DOMAIN p : \E k \in DOMAIN p[i].operands :
        p[i].operands[k].mode \in CommuteModes

SeqsOver(A, n) == UNION {[1..k -> A] : k \in 1..n}

Programs ==
    SeqsOver(QuantumAlphabet, MaxLen) \cup SeqsOver(ClassicalAlphabet, MaxLen)
        \cup SeqsOver(CommutingAlphabet, MaxLen)
        \cup {test_qwg, test_singledim, test_edge, test_detuned,
              FiveThenBarrier, CommutingPairs,
              UnevenCircuit}

HasTwoQubitGate(p) == \E i \in DOMAIN p : Len(p[i].operands) = 2

Platforms == {"test_179.json", "test_cfg_none_s7.json"}

Strategies == {"ASAP", "ALAP", "UNIFORM"}

TwoQubitDurations == {1, 2}

-----------------------------------------------------------------------------
(* Resource model of the platform. *)

\* mutant: qubit 4 is driven by another waveform generator
QwgOfSplit(q) == IF q \in {0, 1} THEN 0 ELSE IF q \in {2, 3} THEN 1 ELSE 2

\* the waveform generator that drives qubit q
QwgOf(q) == IF q \in {0, 1} THEN 0 ELSE IF q \in {2, 3, 4} THEN 1 ELSE 2

\* the edge resource of a qubit pair; cz(1,4) and cz(0,3) share one
EdgeOf(qs) == IF qs = {1, 4} \/ qs = {0, 3} THEN 0 ELSE IF qs = {0, 2} THEN 1 ELSE 2

\* mutant: a cz detunes no qubit
DetunedByNone(qs) == {}

\* the qubits a cz on the pair qs detunes: no cz on 0,2 or 1,4 while x 3 or y 3
DetunedBy(qs) == IF qs = {0, 2} \/ qs = {1, 4} THEN {3} ELSE {}

\* a cz is a flux operation, a single-qubit rotation a microwave operation
OperationType(name) == IF name \in {"cz", "cnot"} THEN "flux" ELSE "mw"

\* what a unit records of the instruction that reserves it
OperationOn(u, name) ==
    IF u[1] = "detuned" THEN OperationType(name) ELSE name

\* the resource units an instruction occupies while it executes
UnitsOf(ins, plat) ==
    IF plat # "test_179.json" \/ ins.name = "barrier" THEN {}
    ELSE IF Cardinality(QubitsOf(ins)) = 1
    THEN {<<"qwg", QwgOf(q)>> : q \in QubitsOf(ins)}
            \cup {<<"detuned", q>> : q \in QubitsOf(ins)}
    ELSE IF Cardinality(QubitsOf(ins)) = 2
    THEN {<<"edge", EdgeOf(QubitsOf(ins))>>}
            \cup {<<"detuned", q>> : q \in DetunedBy(QubitsOf(ins))}
    ELSE {}

AllUnits == {<<"qwg", 0>>, <<"qwg", 1>>, <<"qwg", 2>>,
             <<"edge", 0>>, <<"edge", 1>>, <<"edge", 2>>}
                \cup {<<"detuned", q>> : q \in 0..4}

AllObjects ==
    {Qubit(q) : q \in 0..4} \cup {make_bit_ref(q) : q \in 0..4}
        \cup {Creg(0), Creg(1), NullRef}

\* maximum representable cycle
MAX_CYCLE == 2147483647

-----------------------------------------------------------------------------
(* Dependency graph builder. *)

\* mutant: a write after reads draws edges from the reads only
EdgesForAccessReadsFirst(v, obj, mode, lw, lr) ==
    IF mode = "read" \/ lr[obj] = {}
    THEN {<<u, v>> : u \in ({lw[obj]} \ {0})}
    ELSE {<<u, v>> : u \in lr[obj]}

\* edges drawn to instruction v for one access of object obj
EdgesForAccess(v, obj, mode, lw, lr) ==
    {<<u, v>> : u \in ({lw[obj]} \ {0})}
        \cup (IF mode = "read" THEN {} ELSE {<<u, v>> : u \in lr[obj]})

\* mutant: a read does not commute with the reads before it
JoinsNever(mode, obj, lr, lm) == mode # "write" /\ lr[obj] = {}

\* the access commutes with the last reads of the object: both are reads, or
\* both commute about the same axis
Joins(mode, obj, lr, lm) ==
    mode # "write" /\ (lr[obj] = {} \/ lm[obj] = mode)

\* edges drawn to instruction v for its whole access set: an access that joins
\* the last reads depends on the last write and on the accesses those reads
\* superseded, any other access on the last write and the last reads
EdgesFor(v, acc, lw, lr, lm, lp) ==
    UNION {IF Joins(acc[obj], obj, lr, lm)
           THEN EdgesForAccess(v, obj, "read", lw, lr)
                    \cup {<<u, v>> : u \in lp[obj]}
           ELSE EdgesForAccess(v, obj, "write", lw, lr) :
             obj \in DOMAIN acc}

\* last-write bookkeeping after instruction v
UpdateLastWrite(v, acc, lw) ==
    [obj \in AllObjects |->
        IF obj \in DOMAIN acc /\ acc[obj] = "write" THEN v
        ELSE lw[obj]]

\* mutant: a write leaves the last reads in place
UpdateLastReadsNotCleared(v, acc, lr, lm) ==
    [obj \in AllObjects |->
        IF obj \notin DOMAIN acc THEN lr[obj]
        ELSE IF Joins(acc[obj], obj, lr, lm) THEN lr[obj] \cup {v}
        ELSE IF acc[obj] = "write" THEN lr[obj]
        ELSE {v}]

\* last-reads bookkeeping after instruction v
UpdateLastReads(v, acc, lr, lm) ==
    [obj \in AllObjects |->
        IF obj \notin DOMAIN acc THEN lr[obj]
        ELSE IF Joins(acc[obj], obj, lr, lm) THEN lr[obj] \cup {v}
        ELSE IF acc[obj] = "write" THEN {}
        ELSE {v}]

\* the mode shared by the last reads after instruction v
UpdateLastMode(v, acc, lm) ==
    [obj \in AllObjects |->
        IF obj \notin DOMAIN acc THEN lm[obj]
        ELSE IF acc[obj] = "write" THEN "read"
        ELSE acc[obj]]

\* the accesses superseded by the last reads after instruction v
UpdateLastPrior(v, acc, lr, lm, lp) ==
    [obj \in AllObjects |->
        IF obj \notin DOMAIN acc \/ Joins(acc[obj], obj, lr, lm) THEN lp[obj]
        ELSE IF acc[obj] = "write" THEN {}
        ELSE lr[obj]]

-----------------------------------------------------------------------------
(* Graph queries. *)

Preds(E, i) == {e[1] : e \in {f \in E : f[2] = i}}

Succs(E, i) == {e[2] : e \in {f \in E : f[1] = i}}

\* longest path from instruction i to a sink, its own duration included
RECURSIVE CritPath(_, _, _, _)
CritPath(p, E, d, i) ==
    DurationOf(p[i], d)
        + (IF Succs(E, i) = {} THEN 0
           ELSE SetMax({CritPath(p, E, d, s) : s \in Succs(E, i)}))

\* longest path from a source to instruction i, its own duration included
RECURSIVE Depth(_, _, _, _)
Depth(p, E, d, i) ==
    DurationOf(p[i], d)
        + (IF Preds(E, i) = {} THEN 0
           ELSE SetMax({Depth(p, E, d, u) : u \in Preds(E, i)}))

Unscheduled(cyc) == {i \in DOMAIN cyc : cyc[i] = NoCycle}

Scheduled(cyc) == {i \in DOMAIN cyc : cyc[i] # NoCycle}

\* total length: the latest completion over the scheduled instructions
Makespan(p, d, cyc) ==
    SetMax({0} \cup {cyc[i] + DurationOf(p[i], d) : i \in Scheduled(cyc)})

-----------------------------------------------------------------------------
(* Resource state: per unit one reservation [from, to) and its operation. *)

InitRstate(start) ==
    [u \in AllUnits |-> [op |-> "", from |-> start, to |-> start]]

\* mutant: the operation that is playing is not compared
SharesAnyOperation(u, res, name) == u[1] # "edge"

\* a waveform generator can play one operation for several qubits at once,
\* a qubit can be kept detuned by several flux operations at once
Shares(u, res, name) == u[1] # "edge" /\ res.op = OperationOn(u, name)

\* mutant: only the start of the reservation is compared, not its end
AvailableFwdFromOnly(rs, units, name, c) ==
    \A u \in units : ~(c < rs[u].from)

AvailableFwd(rs, units, name, c) ==
    \A u \in units :
        ~(c < rs[u].from \/ (c < rs[u].to /\ ~Shares(u, rs[u], name)))

\* mutant: every unit tried is marked, whether the instruction uses it or not
ReserveFwdEveryUnit(rs, units, name, c, dur) ==
    [u \in AllUnits |->
        IF Shares(u, rs[u], name)
        THEN [rs[u] EXCEPT !.to = Max(@, c + dur)]
        ELSE [op |-> OperationOn(u, name), from |-> c, to |-> c + dur]]

\* commit instruction name at cycle c: its units are reserved, no other
ReserveFwd(rs, units, name, c, dur) ==
    [u \in AllUnits |->
        IF u \notin units THEN rs[u]
        ELSE IF Shares(u, rs[u], name)
        THEN [rs[u] EXCEPT !.to = Max(@, c + dur)]
        ELSE [op |-> OperationOn(u, name), from |-> c, to |-> c + dur]]

AvailableBwd(rs, units, name, c, dur) ==
    \A u \in units :
        ~(c + dur > rs[u].to
            \/ (c + dur > rs[u].from /\ ~Shares(u, rs[u], name)))

ReserveBwd(rs, units, name, c, dur) ==
    [u \in AllUnits |->
        IF u \notin units THEN rs[u]
        ELSE IF Shares(u, rs[u], name)
        THEN [rs[u] EXCEPT !.from = Min(@, c)]
        ELSE [op |-> OperationOn(u, name), from |-> c, to |-> c + dur]]

-----------------------------------------------------------------------------
(* ASAP: forward list scheduling. *)

SchedState(cyc, rs) == [cycle |-> cyc, rstate |-> rs]

AsapReady(E, cyc) ==
    {i \in Unscheduled(cyc) : Preds(E, i) \subseteq Scheduled(cyc)}

\* mutant: candidates with equal scores are not told apart
ProgramOrderIgnored(i, j) == TRUE

\* the final tie-break between candidates with equal scores: i is not after j
ProgramOrder(i, j) == i <= j

\* the ready instructions no other ready instruction goes before
AsapWinners(p, E, d, cyc) ==
    {i \in AsapReady(E, cyc) :
        \A j \in AsapReady(E, cyc) :
            \/ CritPath(p, E, d, i) > CritPath(p, E, d, j)
            \/ CritPath(p, E, d, i) = CritPath(p, E, d, j) /\ ProgramOrder(i, j)}

\* the ready instruction with the longest critical path, first in program order
AsapPick(p, E, d, cyc) == CHOOSE i \in AsapWinners(p, E, d, cyc) : TRUE

\* mutant: the latency of the edge is forgotten
AsapCandidateNoLatency(p, E, d, cyc, i) ==
    SetMax({0} \cup {cyc[u] : u \in Preds(E, i)})

\* maximum over the predecessors of cycle + latency, 0 without predecessors
AsapCandidate(p, E, d, cyc, i) ==
    SetMax({0} \cup {cyc[u] + DurationOf(p[u], d) : u \in Preds(E, i)})

\* mutant: the probe skips to the end of the current reservations
AsapProbeSkip(rs, units, name, cand) ==
    SetMax({cand} \cup {rs[u].to : u \in units})

\* probe increasing cycles from the candidate until the units are available
AsapProbe(rs, units, name, cand) ==
    SetMin({c \in cand..SetMax({cand} \cup {rs[u].to : u \in units}) :
              AvailableFwd(rs, units, name, c)})

\* instruction i gets the first feasible cycle from its candidate on
AsapPlaceOf(p, E, plat, d, st, i) ==
    LET units == UnitsOf(p[i], plat)
        c == AsapProbe(st.rstate, units, p[i].name,
                       AsapCandidate(p, E, d, st.cycle, i))
    IN  SchedState([st.cycle EXCEPT ![i] = c],
                   ReserveFwd(st.rstate, units, p[i].name, c,
                              DurationOf(p[i], d)))

AsapPlace(p, E, plat, d, st) ==
    AsapPlaceOf(p, E, plat, d, st, AsapPick(p, E, d, st.cycle))

RECURSIVE AsapRun(_, _, _, _, _)
AsapRun(p, E, plat, d, st) ==
    IF Unscheduled(st.cycle) = {} THEN st
    ELSE AsapRun(p, E, plat, d, AsapPlace(p, E, plat, d, st))

Unplaced(p) == [i \in DOMAIN p |-> NoCycle]

\* the complete ASAP schedule of a circuit
AsapSchedule(p, E, plat, d) ==
    AsapRun(p, E, plat, d, SchedState(Unplaced(p), InitRstate(0))).cycle

-----------------------------------------------------------------------------
(* ALAP: backward list scheduling against the horizon. *)

AlapReady(E, cyc) ==
    {i \in Unscheduled(cyc) : Succs(E, i) \subseteq Scheduled(cyc)}

\* the ready instructions no other ready instruction goes before
AlapWinners(p, E, d, cyc) ==
    {i \in AlapReady(E, cyc) :
        \A j \in AlapReady(E, cyc) :
            \/ Depth(p, E, d, i) > Depth(p, E, d, j)
            \/ Depth(p, E, d, i) = Depth(p, E, d, j) /\ ProgramOrder(j, i)}

\* the ready instruction with the longest path from a source, last in program order
AlapPick(p, E, d, cyc) == CHOOSE i \in AlapWinners(p, E, d, cyc) : TRUE

\* minimum over the successors of cycle - latency, horizon - duration without
AlapCandidate(p, E, d, cyc, H, i) ==
    SetMin({H} \cup {cyc[s] : s \in Succs(E, i)}) - DurationOf(p[i], d)

\* mutant: the probe skips to the start of the current reservations
AlapProbeSkip(rs, units, name, cand, dur) ==
    SetMin({cand} \cup {rs[u].from - dur : u \in units})

\* probe decreasing cycles from the candidate until the units are available
AlapProbe(rs, units, name, cand, dur) ==
    SetMax({c \in SetMin({cand} \cup {rs[u].from - dur : u \in units})..cand :
              AvailableBwd(rs, units, name, c, dur)})

-----------------------------------------------------------------------------
(* UNIFORM: least mobility first, least occupied cycle of the window. *)

RECURSIVE Earliest(_, _, _, _, _)
Earliest(p, E, d, cyc, i) ==
    IF cyc[i] # NoCycle THEN cyc[i]
    ELSE SetMax({0} \cup {Earliest(p, E, d, cyc, u) + DurationOf(p[u], d) :
                            u \in Preds(E, i)})

RECURSIVE Latest(_, _, _, _, _, _)
Latest(p, E, d, cyc, H, i) ==
    IF cyc[i] # NoCycle THEN cyc[i]
    ELSE SetMin({H} \cup {Latest(p, E, d, cyc, H, s) : s \in Succs(E, i)})
            - DurationOf(p[i], d)

Mobility(p, E, d, cyc, H, i) ==
    Latest(p, E, d, cyc, H, i) - Earliest(p, E, d, cyc, i)

\* i goes before j: less mobility, then longer critical path, then program order
UniformBefore(p, E, d, cyc, H, i, j) ==
    \/ Mobility(p, E, d, cyc, H, i) < Mobility(p, E, d, cyc, H, j)
    \/ /\ Mobility(p, E, d, cyc, H, i) = Mobility(p, E, d, cyc, H, j)
       /\ \/ CritPath(p, E, d, i) > CritPath(p, E, d, j)
          \/ CritPath(p, E, d, i) = CritPath(p, E, d, j) /\ ProgramOrder(i, j)

\* the unscheduled instructions no other unscheduled instruction goes before
UniformWinners(p, E, d, cyc, H) ==
    {i \in Unscheduled(cyc) :
        \A j \in Unscheduled(cyc) : UniformBefore(p, E, d, cyc, H, i, j)}

UniformPick(p, E, d, cyc, H) == CHOOSE i \in UniformWinners(p, E, d, cyc, H) : TRUE

\* number of instructions that start in cycle c
Count(cyc, c) == Cardinality({i \in Scheduled(cyc) : cyc[i] = c})

\* the least occupied cycle of the window, the earliest among equals
UniformCycle(cyc, lo, hi) ==
    CHOOSE c \in lo..hi :
        \A c2 \in lo..hi :
            \/ Count(cyc, c) < Count(cyc, c2)
            \/ Count(cyc, c) = Count(cyc, c2) /\ c <= c2

\* largest number of instructions that start in one cycle
MaxCount(cyc) == SetMax({0} \cup {Count(cyc, cyc[i]) : i \in Scheduled(cyc)})

-----------------------------------------------------------------------------
(* A scheduling run as a function of its inputs. *)

\* the graph builder's state after the first n instructions of p
RECURSIVE BuildGraph(_, _, _, _)
BuildGraph(p, ds, dm, n) ==
    IF n = 0
    THEN [edges |-> {}, lastWrite |-> [obj \in AllObjects |-> 0],
          lastReads |-> [obj \in AllObjects |-> {}],
          lastMode |-> [obj \in AllObjects |-> "read"],
          lastPrior |-> [obj \in AllObjects |-> {}]]
    ELSE LET g == BuildGraph(p, ds, dm, n - 1)
             acc == add_statement(EmptyAccesses, p[n], ds, dm)
         IN  [edges |-> g.edges \cup EdgesFor(n, acc, g.lastWrite, g.lastReads,
                                              g.lastMode, g.lastPrior),
              lastWrite |-> UpdateLastWrite(n, acc, g.lastWrite),
              lastReads |-> UpdateLastReads(n, acc, g.lastReads, g.lastMode),
              lastMode |-> UpdateLastMode(n, acc, g.lastMode),
              lastPrior |-> UpdateLastPrior(n, acc, g.lastReads, g.lastMode,
                                            g.lastPrior)]

\* the outcome of a run: a cycle for every instruction, or an error
Outcome(cyc, err) == [cycle |-> cyc, error |-> err]

RECURSIVE AlapRun(_, _, _, _, _, _)
AlapRun(p, E, plat, d, H, st) ==
    IF Unscheduled(st.cycle) = {} THEN Outcome(st.cycle, "none")
    ELSE LET i == AlapPick(p, E, d, st.cycle)
             dur == DurationOf(p[i], d)
             units == UnitsOf(p[i], plat)
             c == AlapProbe(st.rstate, units, p[i].name,
                            AlapCandidate(p, E, d, st.cycle, H, i), dur)
         IN  IF c < 0 THEN Outcome(Unplaced(p), "unschedulable")
             ELSE AlapRun(p, E, plat, d, H,
                          SchedState([st.cycle EXCEPT ![i] = c],
                                     ReserveBwd(st.rstate, units, p[i].name,
                                                c, dur)))

RECURSIVE UniformRun(_, _, _, _, _)
UniformRun(p, E, d, H, cyc) ==
    IF Unscheduled(cyc) = {} THEN Outcome(cyc, "none")
    ELSE LET i == UniformPick(p, E, d, cyc, H)
             lo == Earliest(p, E, d, cyc, i)
             hi == Latest(p, E, d, cyc, H, i)
         IN  IF hi < lo THEN Outcome(Unplaced(p), "unschedulable")
             ELSE UniformRun(p, E, d, H,
                             [cyc EXCEPT ![i] = UniformCycle(cyc, lo, hi)])

\* the outcome of scheduling p with dependency graph E on platform plat
Schedule(p, E, plat, s, d) ==
    LET asap == AsapSchedule(p, E, plat, d)
        H == Makespan(p, d, asap)
    IN  CASE s = "ASAP" -> Outcome(asap, "none")
          [] s = "ALAP" ->
                AlapRun(p, E, plat, d, H, SchedState(Unplaced(p), InitRstate(H)))
          [] OTHER -> UniformRun(p, E, d, H, Unplaced(p))

-----------------------------------------------------------------------------
(* The visualizer as consumer of the scheduled gates. *)

\* no exception was thrown
NoException == [what |-> "none", name |-> <<>>]

\* nanoseconds per cycle of the platform
CycleTime == 20

\* a layout with neither cycle compression nor partitioning
PlainLayout == [compressed |-> FALSE, partitioned |-> FALSE]

\* highest cycle index the visualizer accepts, scaled down for the model
MAX_ALLOWED_VISUALIZER_CYCLE == 3

\* the GateProperties the visualizer receives for instruction list p
GateProperties(p, d, cyc, cd) ==
    [i \in DOMAIN p |-> [cycle |-> cyc[i], duration |-> DurationOf(p[i], d) * cd]]

\* mutant: only the upper limit of the cycle index is checked
GateCycleAllowedUpperOnly(gateCycle) ==
    ~(gateCycle > MAX_ALLOWED_VISUALIZER_CYCLE)

\* the cycle index passes the check of calculateAmountOfCycles
GateCycleAllowed(gateCycle) ==
    ~(gateCycle < 0 \/ gateCycle > MAX_ALLOWED_VISUALIZER_CYCLE)

\* calculateAmountOfCycles ends in QL_FATAL
RaisesFatal(gs) == \E k \in DOMAIN gs : ~GateCycleAllowed(gs[k].cycle)

\* highest cycle of the vector, plus the extra cycles of the last gate, plus 1
calculateAmountOfCycles(gs, cd) ==
    LET highest == SetMax({0} \cup {gs[k].cycle : k \in DOMAIN gs})
        lastGateDurationInCycles == gs[Len(gs)].duration \div cd
    IN  highest
          + (IF lastGateDurationInCycles > 1
             THEN lastGateDurationInCycles - 1 ELSE 0)
          + 1

\* the gates of the vector, in order, whose cycle is c
GatesIn(gs, c) == SelectSeq([k \in DOMAIN gs |-> k], LAMBDA k : gs[k].cycle = c)

\* one Cycle per index below the amount of cycles, each gate in the first
\* chunk of the cycle it names
generateCycles(gs, cd) ==
    [i \in 1..calculateAmountOfCycles(gs, cd) |->
        [index |-> i - 1, empty |-> GatesIn(gs, i - 1) = <<>>, cut |-> FALSE,
         gates |-> <<GatesIn(gs, i - 1)>>]]

-----------------------------------------------------------------------------
(* The scheduling run. *)

Init ==
    /\ platform \in Platforms
    /\ strategy \in Strategies
    /\ strategy = "UNIFORM" => platform = "test_cfg_none_s7.json"
    /\ prog \in Programs
    /\ dur2q \in TwoQubitDurations
    /\ HasTwoQubitGate(prog) \/ dur2q = 1
    /\ disable_single_qubit_commutation \in BOOLEAN
    /\ disable_multi_qubit_commutation \in BOOLEAN
    /\ HasCommutingOperand(prog) \/ toggles = <<FALSE, FALSE>>
    /\ accesses = EmptyAccesses
    /\ fresh = EmptyAccesses
    /\ reused = FALSE
    /\ lastCall = Call("construct", "", NullRef, "")
    /\ gates = <<>>
    /\ cycleDuration = CycleTime
    /\ cycles = <<>>
    /\ vizState = "NEW"
    /\ layout = PlainLayout
    /\ lines = <<>>
    /\ data_types = <<>>
    /\ raised = NoException
    /\ lastMode = [obj \in AllObjects |-> "read"]
    /\ lastPrior = [obj \in AllObjects |-> {}]
    /\ runState = "UNSCHEDULED"
    /\ phase = "graph"
    /\ pos = 0
    /\ edges = {}
    /\ lastWrite = [obj \in AllObjects |-> 0]
    /\ lastReads = [obj \in AllObjects |-> {}]
    /\ cycle = Unplaced(prog)
    /\ rstate = InitRstate(0)
    /\ horizon = 0
    /\ error = "none"

Start ==
    /\ runState = "UNSCHEDULED"
    /\ runState' = "IN_PROGRESS"
    /\ UNCHANGED <<platform, strategy, dur2q, prog, pos, edges, lastWrite,
                   lastReads, cycle, rstate, horizon, phase, error>>
    /\ UNCHANGED <<lastMode, lastPrior, analyzerVars, visualizerVars, typeVars>>

\* the graph builder processes the next instruction in program order
BuildStep ==
    /\ runState = "IN_PROGRESS" /\ phase = "graph" /\ pos < Len(prog)
    /\ LET v == pos + 1
           acc == add_statement(reset(accesses), prog[v],
                                disable_single_qubit_commutation,
                                disable_multi_qubit_commutation)
       IN  /\ accesses' = acc
           /\ fresh' = acc
           /\ reused' = (reused \/ accesses # EmptyAccesses)
           /\ lastCall' = Call("add_statement", "", NullRef, prog[v].name)
           /\ edges' = edges \cup EdgesFor(v, acc, lastWrite, lastReads,
                                           lastMode, lastPrior)
           /\ lastWrite' = UpdateLastWrite(v, acc, lastWrite)
           /\ lastReads' = UpdateLastReads(v, acc, lastReads, lastMode)
           /\ lastMode' = UpdateLastMode(v, acc, lastMode)
           /\ lastPrior' = UpdateLastPrior(v, acc, lastReads, lastMode,
                                          lastPrior)
           /\ pos' = v
    /\ UNCHANGED <<platform, strategy, dur2q, prog, runState, cycle, rstate,
                   horizon, phase, error, toggles, visualizerVars, typeVars>>

\* the graph is complete: fix the horizon and start assigning cycles
BeginCycles ==
    /\ runState = "IN_PROGRESS" /\ phase = "graph" /\ pos = Len(prog)
    /\ phase' = "cycles"
    /\ horizon' = IF strategy = "ASAP" THEN 0
                  ELSE Makespan(prog, dur2q,
                                AsapSchedule(prog, edges, platform, dur2q))
    /\ rstate' = InitRstate(horizon')
    /\ UNCHANGED <<platform, strategy, dur2q, prog, runState, pos, edges,
                   lastWrite, lastReads, cycle, error>>
    /\ UNCHANGED <<lastMode, lastPrior, analyzerVars, visualizerVars, typeVars>>

Placing(s) ==
    /\ runState = "IN_PROGRESS" /\ phase = "cycles" /\ strategy = s
    /\ Unscheduled(cycle) # {}

\* mutant: the cycles assigned so far are left in place
AbortKeepsPartial(kind) ==
    /\ runState' = "FAILED"
    /\ error' = kind
    /\ cycle' = cycle
    /\ rstate' = rstate

\* a fatal condition: the run fails with a classified error and no schedule
Abort(kind) ==
    /\ runState' = "FAILED"
    /\ error' = kind
    /\ cycle' = Unplaced(prog)
    /\ rstate' = InitRstate(0)

AsapStep ==
    /\ Placing("ASAP")
    /\ \E i \in AsapWinners(prog, edges, dur2q, cycle) :
       LET st == AsapPlaceOf(prog, edges, platform, dur2q,
                             SchedState(cycle, rstate), i)
       IN  IF \E k \in DOMAIN cycle : st.cycle[k] > MAX_CYCLE
           THEN Abort("capacity")
           ELSE /\ cycle' = st.cycle
                /\ rstate' = st.rstate
                /\ UNCHANGED <<runState, error>>
    /\ UNCHANGED <<platform, strategy, dur2q, prog, pos, edges, lastWrite,
                   lastReads, horizon, phase>>
    /\ UNCHANGED <<lastMode, lastPrior, analyzerVars, visualizerVars, typeVars>>

AlapStep ==
    /\ Placing("ALAP")
    /\ \E i \in AlapWinners(prog, edges, dur2q, cycle) :
       LET dur == DurationOf(prog[i], dur2q)
           units == UnitsOf(prog[i], platform)
           c == AlapProbe(rstate, units, prog[i].name,
                          AlapCandidate(prog, edges, dur2q, cycle, horizon, i),
                          dur)
       IN  IF c < 0
           THEN Abort("unschedulable")
           ELSE /\ cycle' = [cycle EXCEPT ![i] = c]
                /\ rstate' = ReserveBwd(rstate, units, prog[i].name, c, dur)
                /\ UNCHANGED <<runState, error>>
    /\ UNCHANGED <<platform, strategy, dur2q, prog, pos, edges, lastWrite,
                   lastReads, horizon, phase>>
    /\ UNCHANGED <<lastMode, lastPrior, analyzerVars, visualizerVars, typeVars>>

UniformStep ==
    /\ Placing("UNIFORM")
    /\ \E i \in UniformWinners(prog, edges, dur2q, cycle, horizon) :
       LET lo == Earliest(prog, edges, dur2q, cycle, i)
           hi == Latest(prog, edges, dur2q, cycle, horizon, i)
       IN  IF hi < lo
           THEN Abort("unschedulable")
           ELSE /\ cycle' = [cycle EXCEPT ![i] = UniformCycle(cycle, lo, hi)]
                /\ UNCHANGED <<runState, error>>
    /\ UNCHANGED <<platform, strategy, dur2q, prog, pos, edges, lastWrite,
                   lastReads, rstate, horizon, phase>>
    /\ UNCHANGED <<lastMode, lastPrior, analyzerVars, visualizerVars, typeVars>>

\* mutant: the run is declared complete whatever is still unscheduled
FinishEarly ==
    /\ runState = "IN_PROGRESS" /\ phase = "cycles"
    /\ runState' = "SCHEDULED"
    /\ UNCHANGED <<platform, strategy, dur2q, prog, pos, edges, lastWrite,
                   lastReads, cycle, rstate, horizon, phase, error>>
    /\ UNCHANGED <<lastMode, lastPrior, analyzerVars, visualizerVars, typeVars>>

\* every instruction has a cycle: the run is complete
Finish ==
    /\ runState = "IN_PROGRESS" /\ phase = "cycles"
    /\ Unscheduled(cycle) = {}
    /\ runState' = "SCHEDULED"
    /\ UNCHANGED <<platform, strategy, dur2q, prog, pos, edges, lastWrite,
                   lastReads, cycle, rstate, horizon, phase, error>>
    /\ UNCHANGED <<lastMode, lastPrior, analyzerVars, visualizerVars, typeVars>>

\* the visualizer pass constructs its CircuitData from the gates of the run
Visualize ==
    /\ runState \in {"SCHEDULED", "FAILED"} /\ vizState = "NEW"
    /\ gates' = GateProperties(prog, dur2q, cycle, cycleDuration)
    /\ IF RaisesFatal(gates')
       THEN vizState' = "FATAL" /\ cycles' = <<>>
       ELSE /\ vizState' = "GENERATED"
            /\ cycles' = generateCycles(gates', cycleDuration)
    /\ UNCHANGED <<schedVars, analyzerVars, typeVars, cycleDuration, layout,
                   lines>>

Next ==
    \/ Start
    \/ BuildStep
    \/ BeginCycles
    \/ AsapStep
    \/ AlapStep
    \/ UniformStep
    \/ Finish
    \/ Visualize

Spec == Init /\ [][Next]_vars

\* the steps of the scheduling run itself, but for BeginCycles
Run == Start \/ BuildStep \/ AsapStep \/ AlapStep \/ UniformStep \/ Finish

\* BeginCycles is enabled: the graph is complete and no cycle is assigned yet
GraphDone == runState = "IN_PROGRESS" /\ phase = "graph" /\ pos = Len(prog)

\* WF_vars(BeginCycles), with ENABLED written as the guard of the action
BeginCyclesFair == []<>(~GraphDone) \/ []<><<BeginCycles>>_vars

\* a circuit whose ALAP schedule on test_179.json does not fit the horizon
OverrunCircuit == <<Gate1("x", 2), Gate1("y", 3), Gate2("cz", 0, 3)>>

\* the circuits whose runs are followed to their end
RunPrograms ==
    {test_qwg, test_singledim, test_edge, test_detuned, CommutingPairs,
     OverrunCircuit}

RunInit == Init /\ prog \in RunPrograms

\* a run is one sequential call: it is not suspended while it can take a step
RunSpec == RunInit /\ [][Next]_vars /\ WF_vars(Run) /\ BeginCyclesFair

-----------------------------------------------------------------------------
(* The analyzer on its own: any sequence of calls on one ObjectAccesses. *)

\* the references handed to add_access directly
AnalyzerRefs == {Qubit(0), make_bit_ref(0)}

\* the calls of add_access: only a qubit is accessed in measure mode
AccessCalls ==
    {c \in AccessModes \X AnalyzerRefs : c[1] = "measure" => c[2][1] = "qubit"}

\* the instructions handed to add_operands and add_statement
AnalyzerInstructions ==
    {Rot("rz", "commute_z", 0), Cnot(0, 1), Gate1("x", 1), FullBarrier}

AnalyzerInit ==
    /\ platform = "test_cfg_none_s7.json"
    /\ strategy = "ASAP"
    /\ dur2q = 1
    /\ prog = <<>>
    /\ runState = "UNSCHEDULED"
    /\ phase = "graph"
    /\ pos = 0
    /\ edges = {}
    /\ lastWrite = [obj \in AllObjects |-> 0]
    /\ lastReads = [obj \in AllObjects |-> {}]
    /\ lastMode = [obj \in AllObjects |-> "read"]
    /\ lastPrior = [obj \in AllObjects |-> {}]
    /\ cycle = Unplaced(prog)
    /\ rstate = InitRstate(0)
    /\ horizon = 0
    /\ error = "none"
    /\ accesses = EmptyAccesses
    /\ disable_single_qubit_commutation = FALSE
    /\ disable_multi_qubit_commutation = FALSE
    /\ fresh = EmptyAccesses
    /\ reused = FALSE
    /\ lastCall = Call("construct", "", NullRef, "")
    /\ gates = <<>>
    /\ cycleDuration = CycleTime
    /\ cycles = <<>>
    /\ vizState = "NEW"
    /\ layout = PlainLayout
    /\ lines = <<>>
    /\ data_types = <<>>
    /\ raised = NoException

AddAccess ==
    /\ \E c \in AccessCalls :
        /\ accesses' = add_access(accesses, c[1], c[2])
        /\ fresh' = add_access(fresh, c[1], c[2])
        /\ lastCall' = Call("add_access", c[1], c[2], "")
    /\ UNCHANGED <<schedVars, visualizerVars, typeVars, toggles, reused>>

AddOperands ==
    /\ \E ins \in AnalyzerInstructions :
        /\ accesses' = add_operands(accesses, ins.operands,
                                    disable_single_qubit_commutation,
                                    disable_multi_qubit_commutation)
        /\ fresh' = add_operands(fresh, ins.operands,
                                 disable_single_qubit_commutation,
                                 disable_multi_qubit_commutation)
        /\ lastCall' = Call("add_operands", "", NullRef, ins.name)
    /\ UNCHANGED <<schedVars, visualizerVars, typeVars, toggles, reused>>

AddStatement ==
    /\ \E ins \in AnalyzerInstructions :
        /\ accesses' = add_statement(accesses, ins,
                                     disable_single_qubit_commutation,
                                     disable_multi_qubit_commutation)
        /\ fresh' = add_statement(fresh, ins,
                                  disable_single_qubit_commutation,
                                  disable_multi_qubit_commutation)
        /\ lastCall' = Call("add_statement", "", NullRef, ins.name)
    /\ UNCHANGED <<schedVars, visualizerVars, typeVars, toggles, reused>>

\* mutant: disabling also turns the recorded commuting accesses into writes
SetSingleRewrites ==
    /\ disable_single_qubit_commutation' = ~disable_single_qubit_commutation
    /\ accesses' = [r \in DOMAIN accesses |->
                       IF accesses[r] \in CommuteModes THEN "write"
                       ELSE accesses[r]]
    /\ lastCall' = Call("disable_single_qubit_commutation", "", NullRef, "")
    /\ UNCHANGED <<schedVars, visualizerVars, typeVars, disable_multi_qubit_commutation,
                   fresh, reused>>

\* the caller assigns the public member disable_single_qubit_commutation
SetSingle ==
    /\ disable_single_qubit_commutation' = ~disable_single_qubit_commutation
    /\ lastCall' = Call("disable_single_qubit_commutation", "", NullRef, "")
    /\ UNCHANGED <<schedVars, visualizerVars, typeVars, accesses,
                   disable_multi_qubit_commutation, fresh, reused>>

\* the caller assigns the public member disable_multi_qubit_commutation
SetMulti ==
    /\ disable_multi_qubit_commutation' = ~disable_multi_qubit_commutation
    /\ lastCall' = Call("disable_multi_qubit_commutation", "", NullRef, "")
    /\ UNCHANGED <<schedVars, visualizerVars, typeVars, accesses,
                   disable_single_qubit_commutation, fresh, reused>>

Reset ==
    /\ accesses' = reset(accesses)
    /\ fresh' = EmptyAccesses
    /\ reused' = (reused \/ accesses # EmptyAccesses)
    /\ lastCall' = Call("reset", "", NullRef, "")
    /\ UNCHANGED <<schedVars, visualizerVars, typeVars, toggles>>

AnalyzerNext ==
    \/ AddAccess
    \/ AddOperands
    \/ AddStatement
    \/ SetSingle
    \/ SetMulti
    \/ Reset

AnalyzerSpec == AnalyzerInit /\ [][AnalyzerNext]_vars

-----------------------------------------------------------------------------
(* Registration of data types: any sequence of add_type calls. *)

\* longest type name tried
MaxNameLen == 2

\* most types registered
MaxTypes == 3

\* character codes of '1', 'a' and 'b'
Chars == {49, 97, 98}

Digits == {49}

\* type names as strings of character codes
Names == {<<>>} \cup SeqsOver(Chars, MaxNameLen)

\* the name matches IDENTIFIER_RE: a letter, then letters and digits
IsIdentifier(name) == name # <<>> /\ name[1] \notin Digits

\* operator< of std::string
RECURSIVE NameLess(_, _)
NameLess(a, b) ==
    IF b = <<>> THEN FALSE
    ELSE IF a = <<>> THEN TRUE
    ELSE IF a[1] # b[1] THEN a[1] < b[1]
    ELSE NameLess(Tail(a), Tail(b))

compare_by_name(lhs, rhs) == NameLess(lhs, rhs)

\* mutant: the first position whose name is greater than val
LowerBoundAfterEqual(vec, val) ==
    SetMin({k \in 1..Len(vec) : compare_by_name(val, vec[k])}
              \cup {Len(vec) + 1})

\* std::lower_bound with compare_by_name: the first position whose name is
\* not less than val, the end (Len + 1) if there is none
lower_bound(vec, val) ==
    SetMin({k \in 1..Len(vec) : ~compare_by_name(vec[k], val)}
              \cup {Len(vec) + 1})

\* vector::insert before position at
InsertAt(vec, at, val) ==
    SubSeq(vec, 1, at - 1) \o <<val>> \o SubSeq(vec, at, Len(vec))

Exception(what, name) == [what |-> what, name |-> name]

\* the platform after add_type(name), and what the call threw
add_type(vec, name) ==
    IF ~IsIdentifier(name)
    THEN [data_types |-> vec,
          raised |-> Exception("is not a valid identifier", name)]
    ELSE LET at == lower_bound(vec, name)
         IN  IF at # Len(vec) + 1 /\ vec[at] = name
             THEN [data_types |-> vec,
                   raised |-> Exception("is already in use", name)]
             ELSE [data_types |-> InsertAt(vec, at, name),
                   raised |-> NoException]

TypesInit == AnalyzerInit

AddType ==
    \E name \in Names :
        LET r == add_type(data_types, name)
        IN  /\ Len(r.data_types) <= MaxTypes
            /\ data_types' = r.data_types
            /\ raised' = r.raised
            /\ UNCHANGED <<schedVars, analyzerVars, visualizerVars>>

TypesSpec == TypesInit /\ [][AddType]_vars

-----------------------------------------------------------------------------
(* The CircuitData of the visualizer, built from any vector of gates. *)

\* longest gate vector
MaxGates == 3

\* a gate as the visualizer sees it: cycle, duration in nanoseconds, qubit
\* operands and classical operands
VizGate(operands, cregs, c, cyclesTaken) ==
    [cycle |-> c, duration |-> cyclesTaken * CycleTime,
     operands |-> operands, creg_operands |-> cregs]

\* in the cycles 0 and 2: a one-cycle gate on qubit 4, two-cycle gates on the
\* pairs 1,2 and 0,3, a measurement of qubit 3 into bit 0; and a gate whose
\* cycle is not allowed
VizAlphabet ==
    UNION {{VizGate(<<4>>, <<>>, c, 1), VizGate(<<1, 2>>, <<>>, c, 2),
            VizGate(<<0, 3>>, <<>>, c, 2), VizGate(<<3>>, <<0>>, c, 1)} :
              c \in {0, 2}}
        \cup {VizGate(<<4>>, <<>>, MAX_ALLOWED_VISUALIZER_CYCLE + 1, 1)}

Layouts == [compressed : BOOLEAN, partitioned : BOOLEAN]

\* number of qubit rows: one more than the highest qubit operand
calculateAmountOfBits(gs) ==
    1 + SetMax({0} \cup UNION {{gs[g].operands[k] : k \in DOMAIN gs[g].operands} :
                                  g \in DOMAIN gs})

GateOperand(bitType, index) == [bitType |-> bitType, index |-> index]

\* the operands of a gate, the qubits first
getGateOperands(gate) ==
    [k \in DOMAIN gate.operands |-> GateOperand("QUANTUM", gate.operands[k])]
        \o [k \in DOMAIN gate.creg_operands |->
                GateOperand("CLASSICAL", gate.creg_operands[k])]

\* the row of an operand, the classical rows below the qubit rows
RowOf(operand, amountOfQubits) ==
    IF operand.bitType = "QUANTUM" THEN operand.index
    ELSE operand.index + amountOfQubits

\* the rows of the topmost and of the bottommost operand of a gate
calculateEdgeOperands(operands, amountOfQubits) ==
    <<SetMin({RowOf(operands[k], amountOfQubits) : k \in DOMAIN operands}),
      SetMax({RowOf(operands[k], amountOfQubits) : k \in DOMAIN operands})>>

\* number of empty cycles before position k of a cycle vector
EmptyBefore(cycs, k) == Cardinality({n \in 1..(k - 1) : cycs[n].empty})

\* how often the chunks of a cycle refer to gate g
Occurrences(cyc, g) ==
    Cardinality(UNION {{<<c, n>> : n \in {m \in DOMAIN cyc.gates[c] :
                                            cyc.gates[c][m] = g}} :
                         c \in DOMAIN cyc.gates})

\* what compressCycles takes off the cycle of gate g while it walks the
\* first k cycles
RECURSIVE Decrement(_, _, _)
Decrement(cycs, g, k) ==
    IF k = 0 THEN 0
    ELSE Decrement(cycs, g, k - 1)
            + (IF cycs[k].empty THEN 0
               ELSE Occurrences(cycs[k], g) * EmptyBefore(cycs, k))

\* mutant: the gates keep the cycle they had
compressCyclesKeepsGateCycles(cycs, gs) ==
    LET kept == SelectSeq([k \in DOMAIN cycs |-> k], LAMBDA k : ~cycs[k].empty)
    IN  [cycles |-> [n \in DOMAIN kept |->
                        [cycs[kept[n]] EXCEPT
                            !.index = (kept[n] - 1) - EmptyBefore(cycs, kept[n])]],
         gates |-> gs]

\* the non-empty cycles, renumbered, and the gates with their cycle moved up
compressCycles(cycs, gs) ==
    LET kept == SelectSeq([k \in DOMAIN cycs |-> k], LAMBDA k : ~cycs[k].empty)
    IN  [cycles |-> [n \in DOMAIN kept |->
                        [cycs[kept[n]] EXCEPT
                            !.index = (kept[n] - 1) - EmptyBefore(cycs, kept[n])]],
         gates |-> [g \in DOMAIN gs |->
                        [gs[g] EXCEPT
                            !.cycle = @ - Decrement(cycs, g, Len(cycs))]]]

IsMultiOperand(gate) == Len(gate.operands) + Len(gate.creg_operands) > 1

\* the overlap test of partitionCyclesWithOverlap on two pairs of edge operands
GatesOverlap(e1, e2) ==
    \/ e1[1] >= e2[1] /\ e1[1] <= e2[2]
    \/ e1[2] >= e2[1] /\ e1[2] <= e2[2]

EdgesOf(gs, g, amountOfQubits) ==
    calculateEdgeOperands(getGateOperands(gs[g]), amountOfQubits)

\* the candidate goes into the first chunk none of whose gates it overlaps,
\* into a new chunk if there is none
PlaceCandidate(partition, candidate, gs, amountOfQubits) ==
    LET fits == {c \in DOMAIN partition :
                    \A n \in DOMAIN partition[c] :
                        ~GatesOverlap(EdgesOf(gs, candidate, amountOfQubits),
                                      EdgesOf(gs, partition[c][n], amountOfQubits))}
    IN  IF fits = {} THEN Append(partition, <<candidate>>)
        ELSE [partition EXCEPT ![SetMin(fits)] = Append(@, candidate)]

\* the partition of the first n candidates
RECURSIVE PartitionOf(_, _, _, _)
PartitionOf(candidates, n, gs, amountOfQubits) ==
    IF n = 0 THEN <<>>
    ELSE PlaceCandidate(PartitionOf(candidates, n - 1, gs, amountOfQubits),
                        candidates[n], gs, amountOfQubits)

\* one cycle after partitionCyclesWithOverlap
PartitionCycle(cyc, gs, amountOfQubits) ==
    LET candidates == SelectSeq(cyc.gates[1], LAMBDA g : IsMultiOperand(gs[g]))
        partition == PartitionOf(candidates, Len(candidates), gs, amountOfQubits)
    IN  IF Len(cyc.gates[1]) > 1 /\ Len(candidates) > 1 /\ Len(partition) > 1
        THEN [cyc EXCEPT !.gates = partition]
        ELSE cyc

partitionCyclesWithOverlap(cycs, gs, amountOfQubits) ==
    [k \in DOMAIN cycs |-> PartitionCycle(cycs[k], gs, amountOfQubits)]

LineSegment(type, start, end) == [type |-> type, start |-> start, end |-> end]

\* the pulse segments of the gates on qubit q, in the order of the gates
PulsesOf(gs, q, cd) ==
    LET on == SelectSeq([g \in DOMAIN gs |-> g],
                        LAMBDA g : \E k \in DOMAIN getGateOperands(gs[g]) :
                                getGateOperands(gs[g])[k] = GateOperand("QUANTUM", q))
    IN  [n \in DOMAIN on |->
            LineSegment("PULSE", gs[on[n]].cycle,
                        gs[on[n]].cycle + (gs[on[n]].duration \div cd) - 1)]

\* the read of a segment after the push_back that may have moved the
\* vector gives the end of the segment
Intact == -1

\* ... or, the reference dangling, any cycle
SegmentEnds(maxCycle) == {Intact} \cup 0..maxCycle

\* the loop of insertFlatLineSegments from cycle i on; end is what the first
\* read of a segment after a push_back gives
RECURSIVE InsertFlatFrom(_, _, _, _)
InsertFlatFrom(segments, i, maxCycle, end) ==
    IF i > maxCycle THEN segments
    ELSE LET j == SetMin({c \in i..maxCycle :
                            \/ c = maxCycle
                            \/ \E k \in DOMAIN segments : segments[k].start = c})
         IN  IF j = maxCycle
             THEN Append(segments, LineSegment("FLAT", i, j))
             ELSE LET segment ==
                        segments[SetMin({k \in DOMAIN segments :
                                            segments[k].start = j})]
                  IN  IF j # i
                      THEN InsertFlatFrom(
                               Append(segments, LineSegment("FLAT", i, j - 1)),
                               (IF end = Intact THEN segment.end ELSE end) + 1,
                               maxCycle, Intact)
                      ELSE InsertFlatFrom(segments, segment.end + 1, maxCycle, end)

insertFlatLineSegments(existingLineSegments, amountOfCycles, end) ==
    InsertFlatFrom(existingLineSegments, 0, amountOfCycles - 1, end)

\* one line per qubit: the pulses of its gates, then the flat segments
generateQubitLines(gs, cycs, cd, end) ==
    [q \in 0..(calculateAmountOfBits(gs) - 1) |->
        insertFlatLineSegments(PulsesOf(gs, q, cd), Len(cycs), end)]

\* no scheduling run, no analyzer call and no registration has taken place
NothingRun ==
    /\ platform = "test_cfg_none_s7.json" /\ strategy = "ASAP" /\ dur2q = 1
    /\ prog = <<>> /\ runState = "UNSCHEDULED" /\ phase = "graph" /\ pos = 0
    /\ edges = {}
    /\ lastWrite = [obj \in AllObjects |-> 0]
    /\ lastReads = [obj \in AllObjects |-> {}]
    /\ lastMode = [obj \in AllObjects |-> "read"]
    /\ lastPrior = [obj \in AllObjects |-> {}]
    /\ cycle = Unplaced(prog) /\ rstate = InitRstate(0) /\ horizon = 0
    /\ error = "none"
    /\ accesses = EmptyAccesses
    /\ disable_single_qubit_commutation = FALSE
    /\ disable_multi_qubit_commutation = FALSE
    /\ fresh = EmptyAccesses /\ reused = FALSE
    /\ lastCall = Call("construct", "", NullRef, "")
    /\ data_types = <<>> /\ raised = NoException

VisualizerInit ==
    /\ NothingRun
    /\ gates \in SeqsOver(VizAlphabet, MaxGates)
    /\ layout \in Layouts
    /\ cycleDuration = CycleTime
    /\ cycles = <<>>
    /\ vizState = "NEW"
    /\ lines = <<>>

\* the constructor of CircuitData generates the cycles
GenerateCycles ==
    /\ vizState = "NEW"
    /\ IF RaisesFatal(gates)
       THEN vizState' = "FATAL" /\ cycles' = <<>>
       ELSE /\ vizState' = "GENERATED"
            /\ cycles' = generateCycles(gates, cycleDuration)
    /\ UNCHANGED <<schedVars, analyzerVars, typeVars, gates, cycleDuration,
                   layout, lines>>

\* ... compresses them if the layout says so
CompressCycles ==
    /\ vizState = "GENERATED" /\ layout.compressed
    /\ vizState' = "COMPRESSED"
    /\ cycles' = compressCycles(cycles, gates).cycles
    /\ gates' = compressCycles(cycles, gates).gates
    /\ UNCHANGED <<schedVars, analyzerVars, typeVars, cycleDuration, layout,
                   lines>>

\* ... and partitions them if the layout says so
PartitionCyclesWithOverlap ==
    /\ layout.partitioned
    /\ \/ vizState = "COMPRESSED"
       \/ vizState = "GENERATED" /\ ~layout.compressed
    /\ vizState' = "PARTITIONED"
    /\ cycles' = partitionCyclesWithOverlap(cycles, gates,
                                            calculateAmountOfBits(gates))
    /\ UNCHANGED <<schedVars, analyzerVars, typeVars, gates, cycleDuration,
                   layout, lines>>

\* the CircuitData is complete
Constructed ==
    \/ vizState = "PARTITIONED"
    \/ vizState = "COMPRESSED" /\ ~layout.partitioned
    \/ vizState = "GENERATED" /\ ~layout.compressed /\ ~layout.partitioned

\* the pulse visualization draws the lines of the qubits
GenerateQubitLines ==
    /\ Constructed
    /\ vizState' = "LINES"
    /\ \E end \in SegmentEnds(Len(cycles) - 1) :
            lines' = generateQubitLines(gates, cycles, cycleDuration, end)
    /\ UNCHANGED <<schedVars, analyzerVars, typeVars, gates, cycleDuration,
                   cycles, layout>>

VisualizerNext ==
    \/ GenerateCycles
    \/ CompressCycles
    \/ PartitionCyclesWithOverlap
    \/ GenerateQubitLines

VisualizerSpec == VisualizerInit /\ [][VisualizerNext]_vars

\* the gates a cycle refers to, over all of its chunks
GatesOfCycle(cyc) ==
    UNION {{cyc.gates[c][n] : n \in DOMAIN cyc.gates[c]} : c \in DOMAIN cyc.gates}

\* C26: after compressCycles the cycle list holds exactly the cycles that were
\* not empty, in their order, cycle k of the list has index k, and the cycle
\* of every gate is the index of the cycle that contains it: it went down by
\* the number of empty cycles that preceded it
CompressedCycles ==
    [][vizState = "GENERATED" /\ vizState' = "COMPRESSED" =>
         LET kept == SelectSeq(cycles, LAMBDA c : ~c.empty)
         IN  /\ Len(cycles') = Len(kept)
             /\ \A k \in DOMAIN cycles' :
                    /\ cycles'[k].index = k - 1
                    /\ ~cycles'[k].empty
                    /\ cycles'[k].gates = kept[k].gates
             /\ DOMAIN gates' = DOMAIN gates
             /\ \A g \in DOMAIN gates' :
                    /\ \E k \in DOMAIN cycles' :
                          /\ g \in GatesOfCycle(cycles'[k])
                          /\ gates'[g].cycle = cycles'[k].index
                    /\ gates'[g].cycle
                          = gates[g].cycle
                              - Cardinality({c \in DOMAIN cycles :
                                                /\ cycles[c].empty
                                                /\ cycles[c].index < gates[g].cycle})
                    /\ gates'[g] = [gates[g] EXCEPT !.cycle = gates'[g].cycle]
    ]_vars

\* two gates two cycles apart end in the adjacent cycles 0 and 1
CompressedCyclesWitness ==
    /\ vizState = "COMPRESSED"
    /\ Len(cycles) = 2
    /\ \E g, h \in DOMAIN gates : gates[g].cycle = 0 /\ gates[h].cycle = 1

\* the rows between the topmost and the bottommost operand of gate g
OperandRange(g) ==
    LET e == EdgesOf(gates, g, calculateAmountOfBits(gates)) IN e[1]..e[2]

\* C27: after partitionCyclesWithOverlap no chunk of any cycle holds two
\* multi-operand gates whose operand ranges have a row in common, one range
\* strictly inside the other included
NoOverlapInChunks ==
    vizState = "PARTITIONED" =>
        \A k \in DOMAIN cycles : \A c \in DOMAIN cycles[k].gates :
            \A m, n \in DOMAIN cycles[k].gates[c] :
                (/\ m # n
                 /\ IsMultiOperand(gates[cycles[k].gates[c][m]])
                 /\ IsMultiOperand(gates[cycles[k].gates[c][n]]))
                    => OperandRange(cycles[k].gates[c][m])
                          \cap OperandRange(cycles[k].gates[c][n]) = {}

\* C28: partitionCyclesWithOverlap keeps the gates of every cycle: the chunks
\* of a cycle hold the gates the cycle held before, single-operand gates
\* included, each gate in exactly one chunk
PartitionPreservesGates ==
    [][vizState # "PARTITIONED" /\ vizState' = "PARTITIONED" =>
         /\ Len(cycles') = Len(cycles)
         /\ \A k \in DOMAIN cycles :
                /\ GatesOfCycle(cycles'[k]) = GatesOfCycle(cycles[k])
                /\ \A g \in GatesOfCycle(cycles[k]) :
                        Occurrences(cycles'[k], g) = 1
    ]_vars

\* the cycles of a segment
CyclesOf(segment) == segment.start..segment.end

\* the pulse segments are pairwise disjoint and within the cycles 0..maxCycle
DisjointWithin(pulses, maxCycle) ==
    /\ \A k \in DOMAIN pulses : CyclesOf(pulses[k]) \subseteq 0..maxCycle
    /\ \A k, m \in DOMAIN pulses :
            k # m => CyclesOf(pulses[k]) \cap CyclesOf(pulses[m]) = {}

\* C29: after insertFlatLineSegments on pairwise disjoint pulse segments
\* within the cycles 0..amountOfCycles-1, every such cycle lies in exactly one
\* segment of the line, no flat segment overlaps a pulse segment, and the
\* pulse segments are the ones there were
FlatSegmentsPartition ==
    vizState = "LINES" =>
        \A q \in DOMAIN lines :
            LET pulses == PulsesOf(gates, q, cycleDuration)
                line == lines[q]
            IN  DisjointWithin(pulses, Len(cycles) - 1) =>
                    /\ \A c \in 0..(Len(cycles) - 1) :
                            Cardinality({k \in DOMAIN line :
                                            c \in CyclesOf(line[k])}) = 1
                    /\ \A k, m \in DOMAIN line :
                            line[k].type = "FLAT" /\ line[m].type = "PULSE"
                                => CyclesOf(line[k]) \cap CyclesOf(line[m]) = {}
                    /\ SubSeq(line, 1, Len(pulses)) = pulses
                    /\ \A k \in (Len(pulses) + 1)..Len(line) :
                            line[k].type = "FLAT"

\* the number of cycles a gate occupies
CyclesTaken(gate) ==
    IF gate.duration \div cycleDuration > 1
    THEN gate.duration \div cycleDuration ELSE 1

\* C30: the amount of cycles covers every gate of the vector: the cycle of a
\* gate plus the cycles it takes is at most the amount of cycles, so every
\* cycle a gate occupies is an index of the generated cycle vector
AmountOfCyclesCoversGates ==
    vizState = "GENERATED" =>
        \A g \in DOMAIN gates :
            gates[g].cycle + CyclesTaken(gates[g]) <= Len(cycles)

-----------------------------------------------------------------------------
(* Properties of the final schedule. *)

Dur(i) == DurationOf(prog[i], dur2q)

Units(i) == UnitsOf(prog[i], platform)

Instrs == DOMAIN prog

\* instruction i, started at cycle c, executes in cycle t
ExecutesAt(i, c, t) == c <= t /\ t < c + Dur(i)

\* instructions i and j, started at ci and cj, hold a common unit in a common cycle
Collide(i, ci, j, cj) ==
    /\ Units(i) \cap Units(j) # {}
    /\ ci < cj + Dur(j)
    /\ cj < ci + Dur(i)

\* C1: in the final schedule of any of the three strategies, every dependency
\* edge u -> v of the built graph satisfies cycle(v) >= cycle(u) + duration(u).
DependencySoundness ==
    runState = "SCHEDULED" =>
        \A e \in edges : cycle[e[2]] >= cycle[e[1]] + Dur(e[1])

\* a UNIFORM schedule in which a two-cycle gate is followed, exactly two
\* cycles later, by an instruction that depends on it
DependencySoundnessWitness ==
    /\ runState = "SCHEDULED" /\ strategy = "UNIFORM"
    /\ \E e \in edges : Dur(e[1]) = 2 /\ cycle[e[2]] = cycle[e[1]] + 2

ConflictingPairSerialized ==
    /\ runState = "SCHEDULED" /\ strategy = "ASAP"
    /\ platform = "test_179.json" /\ dur2q = 1
    /\ prog \in {test_qwg, test_edge}
    => edges = {} /\ cycle = <<0, 1>>

ConflictingPairWitness ==
    /\ runState = "SCHEDULED" /\ strategy = "ASAP"
    /\ platform = "test_179.json" /\ dur2q = 1
    /\ prog = test_edge /\ cycle[2] = 1

\* C4: x(2), y(3), x(4) on the one waveform generator of qubits 2, 3 and 4
\* get the ASAP cycles 0, 1, 2.
SingleDimStacks ==
    /\ runState = "SCHEDULED" /\ strategy = "ASAP"
    /\ platform = "test_179.json" /\ prog = test_singledim
    => edges = {} /\ cycle = <<0, 1, 2>>

SingleDimWitness ==
    /\ runState = "SCHEDULED" /\ strategy = "ASAP"
    /\ platform = "test_179.json" /\ prog = test_singledim
    /\ cycle[3] = 2

WriteReadWrite == <<WriteA, ReadA, WriteA>>

\* C5: for write(a); read(a); write(a) with one-cycle durations the graph has
\* exactly the edges write1->read, read->write2 and write1->write2, and the
\* ASAP schedule is 0, 1, 2.
WriteReadWriteChain ==
    prog = WriteReadWrite /\ phase = "cycles" =>
        /\ edges = {<<1, 2>>, <<2, 3>>, <<1, 3>>}
        /\ runState = "SCHEDULED" /\ strategy = "ASAP" => cycle = <<0, 1, 2>>

WriteReadWriteWitness ==
    /\ prog = WriteReadWrite /\ runState = "SCHEDULED" /\ strategy = "ASAP"
    /\ <<1, 3>> \in edges /\ cycle[3] = 2

\* C6: in the final schedule a full barrier b starts no earlier than the
\* completion of every instruction before it in program order, and every
\* instruction after it starts no earlier than the completion of b.
BarrierSerialization ==
    runState = "SCHEDULED" =>
        \A b \in Instrs :
            IsFullBarrier(prog[b]) =>
                /\ \A q \in Instrs : q < b => cycle[b] >= cycle[q] + Dur(q)
                /\ \A q \in Instrs : q > b => cycle[q] >= cycle[b] + Dur(b)

\* an ALAP schedule with a two-cycle gate before a barrier and a gate after it
BarrierSerializationWitness ==
    /\ runState = "SCHEDULED" /\ strategy = "ALAP"
    /\ \E q, b, r \in Instrs :
        /\ q < b /\ b < r /\ IsFullBarrier(prog[b])
        /\ Dur(q) = 2 /\ Dur(r) = 1
        /\ cycle[b] = cycle[q] + 2 /\ cycle[r] = cycle[b]

\* C7: ordinary instructions only read the null reference, so five one-cycle
\* gates on five qubits without shared resources have no edges among them;
\* ASAP places all five at cycle 0 and the full barrier after them at cycle 1.
NullObjectDoesNotSerialize ==
    /\ prog = FiveThenBarrier /\ platform = "test_cfg_none_s7.json"
    /\ phase = "cycles"
    => /\ edges = {<<q, 6>> : q \in 1..5}
       /\ runState = "SCHEDULED" /\ strategy = "ASAP"
            => cycle = <<0, 0, 0, 0, 0, 1>>

NullObjectWitness ==
    /\ prog = FiveThenBarrier /\ platform = "test_cfg_none_s7.json"
    /\ runState = "SCHEDULED" /\ strategy = "ASAP"
    /\ cycle[5] = 0 /\ cycle[6] = 1

\* some predecessor of i completes after cycle c
PredBlocks(i, c) == \E u \in Preds(edges, i) : cycle[u] + Dur(u) > c

\* some successor of i starts before i, started at cycle c, completes
SuccBlocks(i, c) == \E q \in Succs(edges, i) : cycle[q] - Dur(i) < c

\* i, started at cycle c, would hold a unit in a cycle held by another instruction
Occupied(i, c) == \E j \in Instrs \ {i} : Collide(i, c, j, cycle[j])

Placed(i) == cycle[i] = NoCycle /\ cycle'[i] # NoCycle

UniformBalance ==
    runState = "SCHEDULED" /\ strategy = "UNIFORM" =>
        MaxCount(cycle) <= MaxCount(AsapSchedule(prog, edges, platform, dur2q))

\* the cz gates that detune qubit 3
DetunesQubit3(i) == QubitsOf(prog[i]) \in {{0, 2}, {1, 4}}

\* instructions i and j execute in a common cycle
Overlap(i, j) ==
    /\ cycle[i] < cycle[j] + Dur(j)
    /\ cycle[j] < cycle[i] + Dur(i)

\* C11: in the ASAP and the ALAP schedule on test_179.json no cz on the pair
\* 0,2 or 1,4 executes in a cycle in which a single-qubit gate on qubit 3
\* executes; in particular for cz(0,2); cz(1,4); x(3); y(3); cz(0,2); cz(1,4).
DetuningExclusion ==
    /\ runState = "SCHEDULED" /\ platform = "test_179.json"
    /\ strategy \in {"ASAP", "ALAP"}
    => \A i, j \in Instrs :
          DetunesQubit3(i) /\ QubitsOf(prog[j]) = {3} => ~Overlap(i, j)

\* the ALAP schedule of test_detuned with two-cycle cz: the second pair of cz
\* runs in parallel and starts only when y(3) has completed
DetuningExclusionWitness ==
    /\ runState = "SCHEDULED" /\ platform = "test_179.json"
    /\ strategy = "ALAP" /\ prog = test_detuned /\ dur2q = 2
    /\ cycle[5] = cycle[6] /\ cycle[5] = cycle[4] + Dur(4)

\* the access set of instruction i as the graph builder computes it
AccessesOf(i) ==
    add_statement(EmptyAccesses, prog[i], disable_single_qubit_commutation,
                  disable_multi_qubit_commutation)

OnlyReads(i) == \A obj \in DOMAIN AccessesOf(i) : AccessesOf(i)[obj] = "read"

\* C12: two instructions whose access sets hold only read accesses, on shared
\* or on disjoint objects, have no edge between them in either direction.
ReadReadIndependence ==
    \A i, j \in Instrs :
        OnlyReads(i) /\ OnlyReads(j) => <<i, j>> \notin edges

\* a complete graph with two reads of the object an earlier instruction wrote
\* and a read of another object: the reads depend on the write only
ReadReadWitness ==
    /\ phase = "cycles"
    /\ \E k, i, j \in Instrs :
        /\ k < i /\ i < j /\ OnlyReads(i) /\ OnlyReads(j)
        /\ Creg(0) \in DOMAIN AccessesOf(i) \cap DOMAIN AccessesOf(j)
        /\ <<k, i>> \in edges /\ <<k, j>> \in edges

\* the operand modes of instruction i as declared, commutation enabled
Declared(i) == add_operands(EmptyAccesses, prog[i].operands, FALSE, FALSE)

Shared(i, j) == DOMAIN Declared(i) \cap DOMAIN Declared(j)

\* i precedes j, every object both access is accessed by both as a rotation
\* about the same axis, and both have nq = 1 or both have nq > 1 qubits
SameAxisPair(i, j) ==
    /\ i < j /\ Shared(i, j) # {}
    /\ \A obj \in Shared(i, j) :
          Declared(i)[obj] \in CommuteModes /\ Declared(j)[obj] = Declared(i)[obj]
    /\ (NumQubits(prog[i].operands) = 1) = (NumQubits(prog[j].operands) = 1)

\* no instruction between i and j accesses an object that both access
Adjacent(i, j) ==
    \A k \in Instrs : i < k /\ k < j => DOMAIN Declared(k) \cap Shared(i, j) = {}

\* the toggle that governs instruction i
ToggleOf(i) ==
    IF NumQubits(prog[i].operands) = 1 THEN disable_single_qubit_commutation
    ELSE disable_multi_qubit_commutation

ToggleFrame ==
    [][/\ toggles' # toggles => accesses' = accesses /\ edges' = edges
       /\ lastCall' = Call("add_operands", "", NullRef, "rz")
             /\ disable_single_qubit_commutation'
          => accesses'[Qubit(0)] = "write"]_vars

\* single-qubit commutation has just been disabled and the rotation recorded
\* before is still a commuting access
ToggleFrameWitness ==
    /\ lastCall.op = "disable_single_qubit_commutation"
    /\ disable_single_qubit_commutation
    /\ Qubit(0) \in DOMAIN accesses /\ accesses[Qubit(0)] = "commute_z"

\* the mode add_access records for a requested mode
Normalized(mode) ==
    IF mode = "literal" THEN "read"
    ELSE IF mode = "measure" THEN "write"
    ELSE mode

\* add_access(m, r) on the accesses gathered so far
Added(acc, c) == add_access(acc, c[1], c[2])

\* C15: add_access with normalized mode m2 on an object recorded with mode m1
\* leaves m1 when m1 = m2 and write otherwise; the result of two add_access
\* calls does not depend on their order, and a repeated call changes nothing.
AccessCombination ==
    /\ [][\A c \in AccessCalls :
            lastCall' = Call("add_access", c[1], c[2], "")
                /\ c[2] \in DOMAIN accesses
            => accesses'[c[2]] = IF accesses[c[2]] = Normalized(c[1])
                                 THEN accesses[c[2]] ELSE "write"]_vars
    /\ [](\A c, d \in AccessCalls :
            /\ Added(Added(accesses, c), d) = Added(Added(accesses, d), c)
            /\ Added(Added(accesses, c), c) = Added(accesses, c))

\* a commuting access of a qubit recorded with another mode has made it a write
AccessCombinationWitness ==
    /\ lastCall = Call("add_access", "commute_x", Qubit(0), "")
    /\ accesses[Qubit(0)] = "write"
    /\ make_bit_ref(0) \notin DOMAIN accesses
    /\ ~reused

\* C16: add_access with literal mode records a read: get() never holds the
\* mode literal, and the call has the result of the call with read.
LiteralIsRead ==
    /\ \A r \in DOMAIN accesses : accesses[r] # "literal"
    /\ \A r \in AnalyzerRefs :
          add_access(accesses, "literal", r) = add_access(accesses, "read", r)

\* a literal access of a qubit not accessed before
LiteralIsReadWitness ==
    /\ lastCall = Call("add_access", "literal", Qubit(0), "")
    /\ accesses[Qubit(0)] = "read"

\* C17: add_access with measure mode on a qubit records a write of the qubit
\* and a write of its implicit bit; get() never holds the mode measure.
MeasureWritesQubitAndBit ==
    /\ \A r \in DOMAIN accesses : accesses[r] # "measure"
    /\ \A q \in 0..1 :
          lastCall = Call("add_access", "measure", Qubit(q), "") =>
              /\ Qubit(q) \in DOMAIN accesses
              /\ make_bit_ref(q) \in DOMAIN accesses
              /\ accesses[Qubit(q)] = "write"
              /\ accesses[make_bit_ref(q)] = "write"

\* a measure access of qubit 0 with nothing else recorded
MeasureWitness ==
    /\ lastCall = Call("add_access", "measure", Qubit(0), "")
    /\ DOMAIN accesses = {Qubit(0), make_bit_ref(0)}

\* C18: reset() makes get() empty and leaves both toggles as they are, and
\* the calls made since equal those calls on a freshly constructed analyzer
\* with the same toggles.
ResetClears ==
    /\ [][lastCall' = Call("reset", "", NullRef, "")
            => accesses' = EmptyAccesses /\ toggles' = toggles]_vars
    /\ [](accesses = fresh)

\* an analyzer with a disabled toggle that was reset when it held accesses
\* and has gathered the accesses of a statement since
ResetClearsWitness ==
    /\ reused /\ disable_multi_qubit_commutation
    /\ lastCall.op = "add_statement" /\ accesses # EmptyAccesses

\* the error taxonomy
ErrorKinds ==
    {"internal-consistency", "capacity", "unschedulable", "configuration"}

Winners ==
    CASE strategy = "ASAP" -> AsapWinners(prog, edges, dur2q, cycle)
      [] strategy = "ALAP" -> AlapWinners(prog, edges, dur2q, cycle)
      [] OTHER -> UniformWinners(prog, edges, dur2q, cycle, horizon)

\* C21: a scheduling run is deterministic. The dependency graph is the one
\* the instruction list and the options give, every scheduling step has
\* exactly one candidate that no other goes before (program order settles
\* equal scores), and the outcome of a finished or failed run, the cycle of
\* every instruction and with it the total length, or the error, is the
\* one a second run on the same instruction list, resource model, strategy
\* and options gives.
Determinism ==
    /\ phase = "cycles" =>
          edges = BuildGraph(prog, disable_single_qubit_commutation,
                             disable_multi_qubit_commutation, Len(prog)).edges
    /\ phase = "cycles" /\ runState = "IN_PROGRESS" /\ Unscheduled(cycle) # {} =>
          Cardinality(Winners) = 1
    /\ runState \in {"SCHEDULED", "FAILED"} =>
          Outcome(cycle, error) = Schedule(prog, edges, platform, strategy, dur2q)

\* a finished run on a shared unit, where the order of two candidates with
\* equal scores decides which of them gets the earlier cycle
DeterminismWitness ==
    /\ runState = "SCHEDULED" /\ strategy = "ASAP"
    /\ \E i, j \in DOMAIN prog :
          /\ i < j /\ Preds(edges, i) = {} /\ Preds(edges, j) = {}
          /\ CritPath(prog, edges, dur2q, i) = CritPath(prog, edges, dur2q, j)
          /\ UnitsOf(prog[i], platform) \cap UnitsOf(prog[j], platform) # {}
          /\ cycle[i] = 0 /\ cycle[j] > 0

\* the transitions of the run state
RunTransitions ==
    {<<"UNSCHEDULED", "IN_PROGRESS">>, <<"IN_PROGRESS", "SCHEDULED">>,
     <<"IN_PROGRESS", "FAILED">>}

\* C22: a run starts UNSCHEDULED, changes its state only from UNSCHEDULED to
\* IN_PROGRESS and from IN_PROGRESS to SCHEDULED or FAILED, is SCHEDULED only
\* when every instruction has a cycle, and eventually is SCHEDULED or FAILED
\* (which it then stays, as no transition leaves either).
RunStateMachine ==
    /\ runState = "UNSCHEDULED"
    /\ [][runState' # runState => <<runState, runState'>> \in RunTransitions]_vars
    /\ [](runState = "SCHEDULED" => Unscheduled(cycle) = {})
    /\ <>[](runState \in {"SCHEDULED", "FAILED"})

\* a complete UNIFORM run at rest
RunStateMachineWitness ==
    /\ runState = "SCHEDULED" /\ strategy = "UNIFORM" /\ Len(prog) > 1
    /\ Scheduled(cycle) = DOMAIN prog /\ vizState = "NEW"

\* instruction i accesses object obj in the given mode
Accesses(i, obj, mode) ==
    obj \in DOMAIN AccessesOf(i) /\ AccessesOf(i)[obj] = mode

\* the most recent of the first n instructions that wrote obj, 0 if none did
MostRecentWrite(obj, n) ==
    SetMax({0} \cup {i \in 1..n : Accesses(i, obj, "write")})

\* the instructions among the first n that read obj after its last write
ReadersSince(obj, n) ==
    {i \in (MostRecentWrite(obj, n) + 1)..n : Accesses(i, obj, "read")}

\* every access of obj among the first n after its last write is a read
OnlyReadSince(obj, n) ==
    \A i \in (MostRecentWrite(obj, n) + 1)..n :
        obj \in DOMAIN AccessesOf(i) => Accesses(i, obj, "read")

Commits(i) ==
    /\ cycle[i] = NoCycle /\ cycle'[i] # NoCycle
    /\ \A j \in DOMAIN prog \ {i} : cycle'[j] = cycle[j]
    /\ \A u \in AllUnits :
          IF u \in Units(i) /\ strategy # "UNIFORM"
          THEN /\ rstate'[u].op = OperationOn(u, prog[i].name)
               /\ rstate'[u].from <= cycle'[i]
               /\ cycle'[i] + Dur(i) <= rstate'[u].to
               /\ Min(rstate[u].from, cycle'[i]) <= rstate'[u].from
               /\ rstate'[u].to <= Max(rstate[u].to, cycle'[i] + Dur(i))
          ELSE rstate'[u] = rstate[u]

\* C24: probing leaves no trace. A step changes the occupancy table or an
\* assigned cycle only by committing one placement, which gives one
\* instruction its cycle and reserves its units for exactly the committed
\* cycles (nothing for the cycles tried before, nothing on other units), or
\* by failing, or when the table is set up at the start of cycle assignment.
\* No step changes an instruction, its duration or the platform; the
\* dependency graph does not change once cycle assignment has begun.
ProbeFrame ==
    [][/\ prog' = prog /\ platform' = platform /\ dur2q' = dur2q
       /\ phase = "cycles" => edges' = edges
       /\ rstate' # rstate \/ cycle' # cycle =>
            \/ phase = "graph" /\ phase' = "cycles" /\ cycle' = cycle
            \/ runState = "IN_PROGRESS" /\ runState' = "FAILED"
            \/ \E i \in DOMAIN prog : Commits(i)]_vars

\* an instruction committed later than its candidate cycle: the probe tried
\* and rejected cycles, and the unit is held from the committed cycle only
ProbeFrameWitness ==
    /\ runState = "IN_PROGRESS" /\ phase = "cycles" /\ strategy = "ASAP"
    /\ \E i \in Scheduled(cycle) :
          /\ cycle[i] > AsapCandidate(prog, edges, dur2q, cycle, i)
          /\ \E u \in Units(i) : rstate[u].from = cycle[i]
          /\ Unscheduled(cycle) # {}

\* the list with one more element, val, the others in their order
InsertedInto(vec, val, result) ==
    \E at \in 1..(Len(vec) + 1) :
        /\ Len(result) = Len(vec) + 1 /\ result[at] = val
        /\ \A k \in 1..Len(vec) :
              result[IF k < at THEN k ELSE k + 1] = vec[k]

\* name a comes before name b: a is a proper prefix of b, or the names differ
\* first at a character that is smaller in a
Precedes(a, b) ==
    \E n \in 1..Len(b) :
        /\ \A m \in 1..(n - 1) : m <= Len(a) /\ a[m] = b[m]
        /\ IF n <= Len(a) THEN a[n] < b[n] ELSE n = Len(a) + 1

\* C25: the data_types list is strictly increasing by name after any
\* sequence of add_type calls; a call that throws leaves the list as it
\* was and names a name that is not an identifier or is in the list; the
\* list changes only by gaining one identifier it did not hold.
TypesSorted ==
    /\ [](\A k \in 1..(Len(data_types) - 1) :
              Precedes(data_types[k], data_types[k + 1]))
    /\ [][/\ raised'.what # "none" =>
                /\ data_types' = data_types
                /\ \/ /\ raised'.what = "is not a valid identifier"
                      /\ ~IsIdentifier(raised'.name)
                   \/ /\ raised'.what = "is already in use"
                      /\ \E k \in DOMAIN data_types :
                            data_types[k] = raised'.name
          /\ data_types' # data_types =>
                \E name \in Names :
                    /\ IsIdentifier(name)
                    /\ \A k \in DOMAIN data_types : data_types[k] # name
                    /\ InsertedInto(data_types, name, data_types')]_vars

\* "a", "a1" and "b" are registered and a second "a1" was refused
TypesSortedWitness ==
    /\ data_types = <<(<<97>>), (<<97, 49>>), (<<98>>)>>
    /\ raised = Exception("is already in use", <<97, 49>>)

====
